---- MODULE Spec2Model ----
(***************************************************************************)
(* Model of the S3 file-drop event processor (S3EventProcessor.process,    *)
(* Bucket.renameObject, Bucket.moveToErrors, Subscriber.notify) together   *)
(* with the bucket namespace and the creation notifications that the       *)
(* bucket sends back to the processor for every object written.            *)
(*                                                                         *)
(* Strings that the code inspects character by character (object keys,     *)
(* intake paths, timestamps) are sequences of one-character strings.       *)
(***************************************************************************)
EXTENDS Integers, Sequences, FiniteSets, TLC

(***************************************************************************)
(* Bounds                                                                  *)
(***************************************************************************)
\* number of directory segments put in front of the filename of an arriving key
MaxDepth == 2
\* cap on the number of engine invocations of one run
MaxInvocations == 4

(***************************************************************************)
(* String primitives                                                       *)
(***************************************************************************)
Digits == {"0","1","2","3","4","5","6","7","8","9"}

HexDigits == Digits \cup {"A","B","C","D","E","F","a","b","c","d","e","f"}

\* String.prototype.startsWith
StartsWith(s, p) ==
  /\ Len(p) <= Len(s)
  /\ SubSeq(s, 1, Len(p)) = p

\* String.prototype.substring(n), n counted from 0
Substring(s, n) == SubSeq(s, n + 1, Len(s))

\* index of the first "/" of s, 0 when there is none
FirstSlash(s) ==
  LET slashes == { i \in 1..Len(s) : s[i] = "/" }
  IN  IF slashes = {} THEN 0
      ELSE CHOOSE i \in slashes : \A j \in slashes : i <= j

RECURSIVE Split(_)
\* String.prototype.split('/'): the "/"-delimited segments, empty ones included
Split(s) ==
  LET i == FirstSlash(s)
  IN  IF i = 0 THEN <<s>>
      ELSE <<SubSeq(s, 1, i - 1)>> \o Split(SubSeq(s, i + 1, Len(s)))

RECURSIVE Join(_)
\* Array.prototype.join('/')
Join(parts) ==
  IF Len(parts) = 0 THEN <<>>
  ELSE IF Len(parts) = 1 THEN parts[1]
  ELSE parts[1] \o <<"/">> \o Join(Tail(parts))

\* Array.prototype.pop() of a non-empty array: its last element
Pop(parts) == parts[Len(parts)]

\* Array.prototype.slice(0, -1)
SliceButLast(parts) == SubSeq(parts, 1, Len(parts) - 1)

(***************************************************************************)
(* Key decoding, S3EventProcessor.ts line 54                               *)
(***************************************************************************)
\* key.replace(/\+/g, ' ')
ReplacePlus(s) == [i \in 1..Len(s) |-> IF s[i] = "+" THEN " " ELSE s[i]]

\* the percent escapes of the characters that occur in the modelled keys
EscapeTable ==
  { <<":", <<"%","3","A">> >>, <<"/", <<"%","2","F">> >>, <<" ", <<"%","2","0">> >>,
    <<"+", <<"%","2","B">> >>, <<"%", <<"%","2","5">> >> }

Escaped == { e[2] : e \in EscapeTable }

Unescape(esc) == (CHOOSE e \in EscapeTable : e[2] = esc)[1]

RECURSIVE Flatten(_, _, _)
\* concatenation of the pieces piece[lo], ..., piece[hi]
Flatten(piece, lo, hi) ==
  IF lo > hi THEN <<>>
  ELSE IF lo = hi THEN piece[lo]
  ELSE LET m == (lo + hi) \div 2
       IN  Flatten(piece, lo, m) \o Flatten(piece, m + 1, hi)

\* decodeURIComponent: [ok, value]; ok = FALSE stands for the URIError thrown
\* on a "%" that is not followed by two hexadecimal digits.  A hexadecimal
\* digit is never "%", so every "%" of the input starts an escape, and the
\* scan succeeds exactly when each of them is followed by two digits.
\* Escapes of characters outside EscapeTable do not occur in the keys of
\* this model.
DecodeURIComponent(s) ==
  LET n == Len(s)
      starts == { i \in 1..n : s[i] = "%" }
      ok == \A i \in starts :
              /\ i + 2 <= n
              /\ s[i + 1] \in HexDigits
              /\ s[i + 2] \in HexDigits
              /\ SubSeq(s, i, i + 2) \in Escaped
      piece == [i \in 1..n |->
                  IF i \in starts THEN <<Unescape(SubSeq(s, i, i + 2))>>
                  ELSE IF (i - 1) \in starts \/ (i - 2) \in starts THEN <<>>
                  ELSE <<s[i]>>]
  IN  IF ok THEN [ok |-> TRUE, value |-> Flatten(piece, 1, n)]
      ELSE [ok |-> FALSE, value |-> <<>>]

\* mutation: "+" is not turned into a space
DecodeKey_NoPlus(raw) == DecodeURIComponent(raw)

\* decodeURIComponent(this.record.s3.object.key.replace(/\+/g, ' '))
DecodeKey(raw) == DecodeURIComponent(ReplacePlus(raw))

\* the key of a creation notification as the bucket sends it: URL-encoded,
\* a space sent as "+", "/" left alone
S3Encode(s) ==
  Flatten([i \in 1..Len(s) |->
             IF s[i] = " " THEN <<"+">>
             ELSE IF s[i] \in {":", "+", "%"}
               THEN (CHOOSE e \in EscapeTable : e[1] = s[i])[2]
             ELSE <<s[i]>>], 1, Len(s))

(***************************************************************************)
(* RecursionGuard, PathMatcher, KeyTransitionFunction                      *)
(***************************************************************************)
\* /^\d{4}-\d{2}-\d{2}T\d{2}:\d{2}:\d{2}\.\d{3}Z-/ : the literal characters
\* of the pattern by position; every other position up to 25 is a digit
PatternLength == 25

PatternLiteral ==
  [i \in {5, 8, 11, 14, 17, 20, 24, 25} |->
     CASE i \in {5, 8, 25} -> "-"
       [] i = 11 -> "T"
       [] i \in {14, 17} -> ":"
       [] i = 20 -> "."
       [] i = 24 -> "Z"]

\* mutation: the pattern asks for at least one character after the hyphen
TIMESTAMP_PREFIX_PATTERN_NonEmptyRest(s) ==
  /\ Len(s) > PatternLength
  /\ \A i \in 1..PatternLength :
       IF i \in DOMAIN PatternLiteral THEN s[i] = PatternLiteral[i]
       ELSE s[i] \in Digits

TIMESTAMP_PREFIX_PATTERN(s) ==
  /\ Len(s) >= PatternLength
  /\ \A i \in 1..PatternLength :
       IF i \in DOMAIN PatternLiteral THEN s[i] = PatternLiteral[i]
       ELSE s[i] \in Digits

\* mutation: no filename counts as already processed
isAlreadyProcessed_Never(filename) == FALSE

\* mutation: an empty filename counts as already processed
isAlreadyProcessed_EmptyIsMarked(filename) ==
  filename = <<>> \/ TIMESTAMP_PREFIX_PATTERN(filename)

isAlreadyProcessed(filename) == TIMESTAMP_PREFIX_PATTERN(filename)

\* mutation: the guard is given the first segment of the key
FilenameOf_FirstSegment(key) == Split(key)[1]

\* key.split('/').pop() || ''
FilenameOf(key) == Pop(Split(key))

\* mutation: startsWith(subdir.path), without the separator
findSubfolderConfig_NoSeparator(subdirectories, key) ==
  LET hits == { i \in 1..Len(subdirectories) :
                  StartsWith(key, subdirectories[i].path) }
  IN  IF hits = {} THEN 0
      ELSE CHOOSE i \in hits : \A j \in hits : i <= j

\* mutation: the longest matching path wins
findSubfolderConfig_Longest(subdirectories, key) ==
  LET hits == { i \in 1..Len(subdirectories) :
                  StartsWith(key, subdirectories[i].path \o <<"/">>) }
  IN  IF hits = {} THEN 0
      ELSE CHOOSE i \in hits :
             \A j \in hits : Len(subdirectories[j].path) <= Len(subdirectories[i].path)

\* index of the first subdirectory whose path + "/" starts the key, 0 for null
findSubfolderConfig(subdirectories, key) ==
  LET hits == { i \in 1..Len(subdirectories) :
                  StartsWith(key, subdirectories[i].path \o <<"/">>) }
  IN  IF hits = {} THEN 0
      ELSE CHOOSE i \in hits : \A j \in hits : i <= j

\* mutation: the timestamp is appended to the filename
generateDateBasedFileName_Suffix(subfolderPath, nestedPath, originalFilename, timestamp) ==
  IF nestedPath # <<>>
    THEN subfolderPath \o <<"/">> \o nestedPath \o <<"/">> \o originalFilename
           \o <<"-">> \o timestamp
    ELSE subfolderPath \o <<"/">> \o originalFilename \o <<"-">> \o timestamp

\* mutation: timestamp and filename are joined by "_"
generateDateBasedFileName_Underscore(subfolderPath, nestedPath, originalFilename, timestamp) ==
  IF nestedPath # <<>>
    THEN subfolderPath \o <<"/">> \o nestedPath \o <<"/">> \o timestamp
           \o <<"_">> \o originalFilename
    ELSE subfolderPath \o <<"/">> \o timestamp \o <<"_">> \o originalFilename

\* mutation: the nested directories are dropped
generateDateBasedFileName_Flat(subfolderPath, nestedPath, originalFilename, timestamp) ==
  subfolderPath \o <<"/">> \o timestamp \o <<"-">> \o originalFilename

generateDateBasedFileName(subfolderPath, nestedPath, originalFilename, timestamp) ==
  IF nestedPath # <<>>
    THEN subfolderPath \o <<"/">> \o nestedPath \o <<"/">> \o timestamp
           \o <<"-">> \o originalFilename
    ELSE subfolderPath \o <<"/">> \o timestamp \o <<"-">> \o originalFilename

(***************************************************************************)
(* Text constants of the code                                              *)
(***************************************************************************)
\* 'File does not match any configured subdirectory'
ReasonNoMatch == <<"F","i","l","e"," ","d","o","e","s"," ","n","o","t"," ","m","a","t","c","h"," ","a","n","y"," ","c","o","n","f","i","g","u","r","e","d"," ","s","u","b","d","i","r","e","c","t","o","r","y">>

\* 'File already has timestamp prefix indicating previous processing'
ReasonAlreadyProcessed == <<"F","i","l","e"," ","a","l","r","e","a","d","y"," ","h","a","s"," ","t","i","m","e","s","t","a","m","p"," ","p","r","e","f","i","x"," ","i","n","d","i","c","a","t","i","n","g"," ","p","r","e","v","i","o","u","s"," ","p","r","o","c","e","s","s","i","n","g">>

\* 'Failed to rename object in S3'
ReasonRenameFailed == <<"F","a","i","l","e","d"," ","t","o"," ","r","e","n","a","m","e"," ","o","b","j","e","c","t"," ","i","n"," ","S","3">>

\* 'Subscriber Lambda invocation failed: '
ReasonInvokePrefix == <<"S","u","b","s","c","r","i","b","e","r"," ","L","a","m","b","d","a"," ","i","n","v","o","c","a","t","i","o","n"," ","f","a","i","l","e","d",":"," ">>

\* `${error}` of an Error object: its name, ": ", its message
ErrorToString(error) == error.name \o <<":", " ">> \o error.message

\* `Subscriber Lambda invocation failed: ${error}`
InvokeFailedReason(error) == ReasonInvokePrefix \o ErrorToString(error)

\* encodeURIComponent over the characters of the modelled reasons
EncodeURIComponent(s) ==
  Flatten([i \in 1..Len(s) |->
             IF s[i] \in {":", "/", " ", "+", "%"}
               THEN (CHOOSE e \in EscapeTable : e[1] = s[i])[2]
               ELSE <<s[i]>>], 1, Len(s))

\* `error-reason=${encodeURIComponent(reason)}`
Tagging(reason) ==
  <<"e","r","r","o","r","-","r","e","a","s","o","n","=">> \o EncodeURIComponent(reason)

\* key.split('/').pop() || 'unknown'
FilenameOrUnknown(key) ==
  IF Pop(Split(key)) = <<>> THEN <<"u","n","k","n","o","w","n">> ELSE Pop(Split(key))

\* mutation: the errors folder is at the top of the bucket
ErrorKey_TopLevel(key, subfolderPath, timestamp) ==
  <<"e","r","r","o","r","s","/">> \o subfolderPath \o <<"/">> \o timestamp \o <<"-">>
    \o FilenameOrUnknown(key)

\* mutation: "errors" is put in front of the filename instead of naming a folder
ErrorKey_ErrorsPrefix(key, subfolderPath, timestamp) ==
  subfolderPath \o <<"/","e","r","r","o","r","s","-">> \o timestamp \o <<"-">>
    \o FilenameOrUnknown(key)

\* mutation: the whole key, not its last segment, is put under errors/
ErrorKey_FullKey(key, subfolderPath, timestamp) ==
  subfolderPath \o <<"/","e","r","r","o","r","s","/">> \o timestamp \o <<"-">> \o key

\* `${subfolderPath}/errors/${timestamp}-${originalFilename}`
ErrorKey(key, subfolderPath, timestamp) ==
  subfolderPath \o <<"/","e","r","r","o","r","s","/">> \o timestamp \o <<"-">>
    \o FilenameOrUnknown(key)

(***************************************************************************)
(* Inputs: configurations, clock values, arriving keys, notify errors      *)
(***************************************************************************)
\* 2026-02-22T10:30:00.000Z
TS1 == <<"2","0","2","6","-","0","2","-","2","2","T","1","0",":","3","0",":","0","0",".","0","0","0","Z">>

\* 2025-12-31T23:59:59.999Z
TS2 == <<"2","0","2","5","-","1","2","-","3","1","T","2","3",":","5","9",":","5","9",".","9","9","9","Z">>

\* values of Date.prototype.toISOString(), the default clock and the
\* timestamp of moveToErrors
ClockValues == {TS1, TS2}

PathA == <<"a">>

PathAB == <<"a","/","b">>

\* an intake path that itself looks like a marked filename
PathMarked == TS1 \o <<"-","s">>

ArnT1 == <<"a","r","n",":","T","1">>

ArnT2 == <<"a","r","n",":","T","2">>

Subdir(path, arn) == [path |-> path, subscriberLambdaArn |-> arn]

\* values of BUCKET_CONFIG, the empty default included
Configs ==
  { [subdirectories |-> <<>>],
    [subdirectories |-> <<Subdir(PathA, ArnT1)>>],
    [subdirectories |-> <<Subdir(PathA, ArnT1), Subdir(PathAB, ArnT2)>>],
    [subdirectories |-> <<Subdir(PathAB, ArnT2), Subdir(PathA, ArnT1)>>],
    [subdirectories |-> <<Subdir(PathA, ArnT1), Subdir(PathMarked, ArnT2)>>] }

\* directory names: empty, an intake path, a name that only starts like one,
\* the second segment of a nested intake path, a name that looks marked
DirSegments == { <<>>, PathA, <<"a","x">>, <<"b">>, PathMarked }

FileNames ==
  { <<>>,
    <<"d",".","j">>,
    <<"a"," ","b",".","c",".","d">>,
    <<"p","+","q","%","!">>,
    TS1 \o <<"-","d",".","j">>,
    TS2 \o <<"-">>,
    <<"d","-">> \o TS1 \o <<".","j">>,
    TS1 \o <<"_","d">>,
    SubSeq(TS1, 1, 19) \o <<"-","d">>,
    Tail(TS1) \o <<"-","d">> }

\* the directory parts of arriving keys: up to MaxDepth segments
RECURSIVE DirLists(_)
DirLists(n) ==
  IF n = 0 THEN { <<>> }
  ELSE DirLists(n - 1) \cup
       { <<d>> \o l : d \in DirSegments, l \in { m \in DirLists(n - 1) : Len(m) = n - 1 } }

DecodedKeys == { Join(dirs \o <<f>>) : dirs \in DirLists(MaxDepth), f \in FileNames }

\* raw keys that decodeURIComponent rejects
MalformedKeys == { PathA \o <<"/","%">>, PathA \o <<"/","%","z","z","d">> }

\* keys of notification records: encoded as the bucket sends them, literal
\* as the tests write them, and malformed
RawKeys == { S3Encode(k) : k \in DecodedKeys } \cup DecodedKeys \cup MalformedKeys

\* rejection values of Subscriber.notify
Errors ==
  { [name |-> <<"E","r","r","o","r">>, message |-> <<"X"," ","f","a","i","l","e","d">>],
    [name |-> <<"T","i","m","e","o","u","t","E","r","r","o","r">>,
     message |-> <<"t","i","m","e","d"," ","o","u","t">>] }

(***************************************************************************)
(* State                                                                   *)
(***************************************************************************)
VARIABLES
  config,       \* BUCKET_CONFIG
  store,        \* the bucket: key -> [content, tag] of the objects present
  pending,      \* creation notifications sent and not yet handled (raw keys)
  invocations   \* the invocations of process() so far, in order of start

vars == <<config, store, pending, invocations>>

\* { ...a, ...b }
Spread(a, b) ==
  [f \in DOMAIN a \cup DOMAIN b |-> IF f \in DOMAIN b THEN b[f] ELSE a[f]]

RemoveKey(s, key) == [k \in DOMAIN s \ {key} |-> s[k]]

\* a call of a collaborator: its arguments and, once it has settled, what it
\* returned ("true", "false") or how its promise settled ("resolved", "rejected")
Call(op, args) == [op |-> op, args |-> args, returned |-> "pending"]

\* this.bucket.renameObject(key, newKey)
RenameObjectCall(key, newKey) == Call("renameObject", <<key, newKey>>)

\* new Subscriber(subfolderConfig.subscriberLambdaArn).notify(this.bucket, newKey)
NotifyCall(subdir, newKey) == Call("notify", <<subdir.subscriberLambdaArn, newKey>>)

\* this.bucket.moveToErrors(newKey, subfolderConfig.path, reason)
MoveToErrorsCall(newKey, subdir, reason) ==
  Call("moveToErrors", <<newKey, subdir.path, reason>>)

\* the call in progress settles with the given value
Settle(inv, value) == [inv EXCEPT !.calls[Len(inv.calls)].returned = value]

\* an invocation before its first statement
NewInvocation(raw) ==
  [ raw |-> raw, pc |-> "start", thrown |-> FALSE, key |-> <<>>,
    subfolderConfig |-> 0, newKey |-> <<>>, result |-> <<>>, ret |-> <<>>,
    calls |-> <<>>, clockReads |-> 0, timestamp |-> <<>>, errorKey |-> <<>>, reason |-> <<>>,
    error |-> [name |-> <<>>, message |-> <<>>] ]

\* return value of process(): the invocation is over
Return(inv, value) == [inv EXCEPT !.pc = "done", !.ret = value]

\* process() from its first statement to the first await (the CopyObject
\* request of renameObject), or to its return when it skips or throws
ProcessStart(subdirectories, raw, timestamp) ==
  LET inv0 == NewInvocation(raw)
      dec  == DecodeKey(raw)
  IN
  IF ~dec.ok THEN [inv0 EXCEPT !.pc = "done", !.thrown = TRUE]
  ELSE
    LET key    == dec.value
        result == [success |-> FALSE, action |-> "error-rename", originalKey |-> key]
        subfolderConfig == findSubfolderConfig(subdirectories, key)
        inv1   == [inv0 EXCEPT !.key = key, !.result = result,
                               !.subfolderConfig = subfolderConfig]
    IN
    IF subfolderConfig = 0
      THEN Return(inv1, Spread(result, [success |-> TRUE, action |-> "skipped-no-match",
                                        reason |-> ReasonNoMatch]))
    ELSE
      LET filename == FilenameOf(key)
      IN
      IF isAlreadyProcessed(filename)
        THEN Return(inv1, Spread(result, [success |-> TRUE,
                                          action |-> "skipped-already-processed",
                                          reason |-> ReasonAlreadyProcessed]))
      ELSE
        LET path         == subdirectories[subfolderConfig].path
            relativePath == Substring(key, Len(path) + 1)
            pathParts    == Split(relativePath)
            filenameOnly == pathParts[Len(pathParts)]
            nestedPath   == Join(SliceButLast(pathParts))
            newKey       == generateDateBasedFileName(path, nestedPath, filenameOnly,
                                                      timestamp)
        IN  [inv1 EXCEPT !.newKey = newKey, !.clockReads = 1,
                         !.timestamp = timestamp, !.pc = "renameCopy",
                         !.calls = <<RenameObjectCall(key, newKey)>>]

\* mutation: the result of renameObject is not tested and notify is called
RenameFailed_NotifiesAnyway(inv) ==
  LET settled == Settle(inv, "false")
  IN  [settled EXCEPT !.pc = "notify",
                      !.result = Spread(inv.result, [newKey |-> inv.newKey,
                                                     action |-> "renamed"]),
                      !.calls = Append(settled.calls,
                                       NotifyCall(config.subdirectories[inv.subfolderConfig],
                                                  inv.newKey))]

\* mutation: the outcome keeps the action of a successful rename
RenameFailed_ActionRenamed(inv) ==
  Return(Settle(inv, "false"),
         Spread(inv.result, [action |-> "renamed", reason |-> ReasonRenameFailed]))

\* renameObject returned false: process() returns
RenameFailed(inv) ==
  Return(Settle(inv, "false"),
         Spread(inv.result, [action |-> "error-rename", reason |-> ReasonRenameFailed]))

\* mutation: the new key is computed again, with a second read of the clock,
\* when it is recorded in the result
RenameSucceeded_RereadsClock(inv, subdir) ==
  LET settled == Settle(inv, "true")
      last    == Pop(Split(inv.newKey))
      again   == CHOOSE t \in ClockValues : t # inv.timestamp
      newKey  == SubSeq(inv.newKey, 1, Len(inv.newKey) - Len(last)) \o again
                   \o SubSeq(last, Len(again) + 1, Len(last))
  IN  [settled EXCEPT !.pc = "notify",
                      !.clockReads = 2,
                      !.result = Spread(inv.result, [newKey |-> newKey,
                                                     action |-> "renamed"]),
                      !.calls = Append(settled.calls, NotifyCall(subdir, inv.newKey))]

\* renameObject returned true: process() records the new key and calls notify
RenameSucceeded(inv, subdir) ==
  LET settled == Settle(inv, "true")
  IN  [settled EXCEPT !.pc = "notify",
                      !.result = Spread(inv.result, [newKey |-> inv.newKey,
                                                     action |-> "renamed"]),
                      !.calls = Append(settled.calls, NotifyCall(subdir, inv.newKey))]

\* mutation: success is not set
NotifyAccepted_NoSuccess(inv) ==
  Return(Settle(inv, "resolved"), Spread(inv.result, [subscriberInvoked |-> TRUE]))

\* notify resolved: process() returns result
NotifyAccepted(inv) ==
  Return(Settle(inv, "resolved"),
         Spread(inv.result, [subscriberInvoked |-> TRUE, success |-> TRUE]))

\* notify rejected with error: process() calls moveToErrors, which computes
\* the key under errors/ from a fresh timestamp
NotifyRejected(inv, subdir, error, timestamp) ==
  LET settled == Settle(inv, "rejected")
      reason  == InvokeFailedReason(error)
  IN  [settled EXCEPT !.pc = "errorsCopy",
                      !.error = error,
                      !.reason = reason,
                      !.errorKey = ErrorKey(inv.newKey, subdir.path, timestamp),
                      !.calls = Append(settled.calls,
                                       MoveToErrorsCall(inv.newKey, subdir, reason))]

\* mutation: the outcome keeps the action set after the rename
InvokeFailed_KeepsAction(inv, movedToErrors) ==
  Return(Settle(inv, IF movedToErrors THEN "true" ELSE "false"),
         Spread(inv.result, [success |-> FALSE,
                             reason |-> inv.reason, subscriberInvoked |-> FALSE,
                             movedToErrors |-> movedToErrors]))

\* mutation: the outcome reports the move as done whatever moveToErrors returned
InvokeFailed_AlwaysMoved(inv, movedToErrors) ==
  Return(Settle(inv, IF movedToErrors THEN "true" ELSE "false"),
         Spread(inv.result, [success |-> FALSE, action |-> "error-invoke",
                             reason |-> inv.reason, subscriberInvoked |-> FALSE,
                             movedToErrors |-> TRUE]))

\* mutation: the outcome reports the quarantine location as newKey
InvokeFailed_NewKeyIsErrorKey(inv, movedToErrors) ==
  Return(Settle(inv, IF movedToErrors THEN "true" ELSE "false"),
         Spread(inv.result, [success |-> FALSE, action |-> "error-invoke",
                             reason |-> inv.reason, subscriberInvoked |-> FALSE,
                             movedToErrors |-> movedToErrors,
                             newKey |-> inv.errorKey]))

\* moveToErrors returned movedToErrors: process() returns
InvokeFailed(inv, movedToErrors) ==
  Return(Settle(inv, IF movedToErrors THEN "true" ELSE "false"),
         Spread(inv.result, [success |-> FALSE, action |-> "error-invoke",
                             reason |-> inv.reason, subscriberInvoked |-> FALSE,
                             movedToErrors |-> movedToErrors]))

(***************************************************************************)
(* Initial states: one object has arrived and its notification is pending  *)
(***************************************************************************)
Init ==
  /\ config \in Configs
  /\ invocations = <<>>
  /\ \E raw \in RawKeys, present \in BOOLEAN :
       /\ pending = <<raw>>
       /\ store = IF present /\ DecodeKey(raw).ok
                    THEN DecodeKey(raw).value :>
                           [content |-> DecodeKey(raw).value, tag |-> <<>>]
                    ELSE <<>>

(***************************************************************************)
(* Actions                                                                 *)
(***************************************************************************)
\* handler picks up a notification and runs process() to its first await
Start(n) ==
  /\ n \in 1..Len(pending)
  /\ Len(invocations) < MaxInvocations
  /\ \E timestamp \in ClockValues :
       invocations' = Append(invocations,
                             ProcessStart(config.subdirectories, pending[n], timestamp))
  /\ pending' = SubSeq(pending, 1, n - 1) \o SubSeq(pending, n + 1, Len(pending))
  /\ UNCHANGED <<config, store>>

\* mutation: a failed copy is not caught and the delete is sent all the same
RenameCopy_DeleteAnyway(i) ==
  /\ i \in 1..Len(invocations)
  /\ invocations[i].pc = "renameCopy"
  /\ LET inv == invocations[i]
     IN \/ /\ inv.key \in DOMAIN store
           /\ store' = (inv.newKey :> store[inv.key]) @@ store
           /\ pending' = Append(pending, S3Encode(inv.newKey))
           /\ invocations' = [invocations EXCEPT ![i].pc = "renameDelete"]
        \/ /\ invocations' = [invocations EXCEPT ![i].pc = "renameDelete"]
           /\ UNCHANGED <<store, pending>>
  /\ UNCHANGED config

\* mutation: renameObject returns true when its CopyObject request failed
RenameCopy_TrueOnFailure(i) ==
  /\ i \in 1..Len(invocations)
  /\ invocations[i].pc = "renameCopy"
  /\ LET inv == invocations[i]
     IN \/ /\ inv.key \in DOMAIN store
           /\ store' = (inv.newKey :> store[inv.key]) @@ store
           /\ pending' = Append(pending, S3Encode(inv.newKey))
           /\ invocations' = [invocations EXCEPT ![i].pc = "renameDelete"]
        \/ /\ invocations' =
                [invocations EXCEPT ![i] =
                   RenameSucceeded(inv, config.subdirectories[inv.subfolderConfig])]
           /\ UNCHANGED <<store, pending>>
  /\ UNCHANGED config

\* renameObject: the CopyObject request completes
RenameCopy(i) ==
  /\ i \in 1..Len(invocations)
  /\ invocations[i].pc = "renameCopy"
  /\ LET inv == invocations[i]
     IN \/ /\ inv.key \in DOMAIN store
           /\ store' = (inv.newKey :> store[inv.key]) @@ store
           /\ pending' = Append(pending, S3Encode(inv.newKey))
           /\ invocations' = [invocations EXCEPT ![i].pc = "renameDelete"]
        \/ /\ invocations' = [invocations EXCEPT ![i] = RenameFailed(inv)]
           /\ UNCHANGED <<store, pending>>
  /\ UNCHANGED config

\* renameObject: the DeleteObject request completes; on success process()
\* goes on to the InvokeCommand request of Subscriber.notify
RenameDelete(i) ==
  /\ i \in 1..Len(invocations)
  /\ invocations[i].pc = "renameDelete"
  /\ LET inv == invocations[i]
     IN \/ /\ store' = RemoveKey(store, inv.key)
           /\ invocations' =
                [invocations EXCEPT ![i] =
                   RenameSucceeded(inv, config.subdirectories[inv.subfolderConfig])]
        \/ /\ invocations' = [invocations EXCEPT ![i] = RenameFailed(inv)]
           /\ UNCHANGED store
  /\ UNCHANGED <<config, pending>>

\* Subscriber.notify settles; on rejection process() calls moveToErrors, which
\* runs to its CopyObject request
Notify(i) ==
  /\ i \in 1..Len(invocations)
  /\ invocations[i].pc = "notify"
  /\ LET inv == invocations[i]
     IN \/ invocations' = [invocations EXCEPT ![i] = NotifyAccepted(inv)]
        \/ \E error \in Errors, timestamp \in ClockValues :
             invocations' =
               [invocations EXCEPT ![i] =
                  NotifyRejected(inv, config.subdirectories[inv.subfolderConfig],
                                 error, timestamp)]
  /\ UNCHANGED <<config, store, pending>>

\* mutation: a failed copy is not caught and the delete is sent all the same
ErrorsCopy_DeleteAnyway(i) ==
  /\ i \in 1..Len(invocations)
  /\ invocations[i].pc = "errorsCopy"
  /\ LET inv == invocations[i]
     IN \/ /\ inv.newKey \in DOMAIN store
           /\ store' = (inv.errorKey :> [content |-> store[inv.newKey].content,
                                         tag |-> Tagging(inv.reason)]) @@ store
           /\ pending' = Append(pending, S3Encode(inv.errorKey))
           /\ invocations' = [invocations EXCEPT ![i].pc = "errorsDelete"]
        \/ /\ invocations' = [invocations EXCEPT ![i].pc = "errorsDelete"]
           /\ UNCHANGED <<store, pending>>
  /\ UNCHANGED config

\* moveToErrors: the CopyObject request completes
ErrorsCopy(i) ==
  /\ i \in 1..Len(invocations)
  /\ invocations[i].pc = "errorsCopy"
  /\ LET inv == invocations[i]
     IN \/ /\ inv.newKey \in DOMAIN store
           /\ store' = (inv.errorKey :> [content |-> store[inv.newKey].content,
                                         tag |-> Tagging(inv.reason)]) @@ store
           /\ pending' = Append(pending, S3Encode(inv.errorKey))
           /\ invocations' = [invocations EXCEPT ![i].pc = "errorsDelete"]
        \/ /\ invocations' = [invocations EXCEPT ![i] = InvokeFailed(inv, FALSE)]
           /\ UNCHANGED <<store, pending>>
  /\ UNCHANGED config

\* moveToErrors: the DeleteObject request completes
ErrorsDelete(i) ==
  /\ i \in 1..Len(invocations)
  /\ invocations[i].pc = "errorsDelete"
  /\ LET inv == invocations[i]
     IN \/ /\ store' = RemoveKey(store, inv.newKey)
           /\ invocations' = [invocations EXCEPT ![i] = InvokeFailed(inv, TRUE)]
        \/ /\ invocations' = [invocations EXCEPT ![i] = InvokeFailed(inv, FALSE)]
           /\ UNCHANGED store
  /\ UNCHANGED <<config, pending>>

Next ==
  \/ \E n \in 1..MaxInvocations : Start(n)
  \/ \E i \in 1..MaxInvocations : RenameCopy(i)
  \/ \E i \in 1..MaxInvocations : RenameDelete(i)
  \/ \E i \in 1..MaxInvocations : Notify(i)
  \/ \E i \in 1..MaxInvocations : ErrorsCopy(i)
  \/ \E i \in 1..MaxInvocations : ErrorsDelete(i)

Spec == Init /\ [][Next]_vars

(***************************************************************************)
(* Two records processed concurrently, as by Promise.all over processors   *)
(* of different files.  To compare a run with the processing of the same   *)
(* records one after another the environment is fixed: the clock returns   *)
(* one value, the bucket has both objects, a copy fails only when its      *)
(* source is missing and a delete does not fail; notify may still reject.  *)
(***************************************************************************)
\* the value the injected clock returns to every processor
ConcClock == TS1

\* the value of new Date().toISOString() in moveToErrors
ConcErrorClock == TS2

\* keys of the records: directly under an intake path, the same below an
\* empty directory segment, nested, outside every intake path, and a name
\* that is already marked
ConcKeys ==
  { <<"a","/","d",".","j">>,
    <<"a","/","/","d",".","j">>,
    <<"a","/","b","/","d",".","j">>,
    <<"a","x","/","d",".","j">>,
    <<"a","/">> \o TS1 \o <<"-","d",".","j">> }

ConcInit ==
  /\ config \in Configs
  /\ invocations = <<>>
  /\ \E k1 \in ConcKeys, k2 \in ConcKeys :
       /\ k1 # k2
       /\ pending = <<S3Encode(k1), S3Encode(k2)>>
       /\ store = (k1 :> [content |-> k1, tag |-> <<>>])
                    @@ (k2 :> [content |-> k2, tag |-> <<>>])

ConcStart(n) ==
  /\ Start(n)
  /\ invocations'[Len(invocations')].timestamp \in {<<>>, ConcClock}

ConcRenameCopy(i) ==
  /\ RenameCopy(i)
  /\ invocations[i].key \in DOMAIN store => invocations'[i].pc = "renameDelete"

ConcRenameDelete(i) ==
  /\ RenameDelete(i)
  /\ invocations'[i].pc = "notify"

ConcNotify(i) ==
  /\ Notify(i)
  /\ invocations'[i].pc = "errorsCopy"
       => /\ invocations'[i].error.name = <<"E","r","r","o","r">>
          /\ invocations'[i].errorKey
               = ErrorKey(invocations[i].newKey,
                          config.subdirectories[invocations[i].subfolderConfig].path,
                          ConcErrorClock)

ConcErrorsCopy(i) ==
  /\ ErrorsCopy(i)
  /\ invocations[i].newKey \in DOMAIN store => invocations'[i].pc = "errorsDelete"

ConcErrorsDelete(i) ==
  /\ ErrorsDelete(i)
  /\ invocations'[i].calls[3].returned = "true"

ConcNext ==
  \/ \E n \in 1..MaxInvocations : ConcStart(n)
  \/ \E i \in 1..MaxInvocations : ConcRenameCopy(i)
  \/ \E i \in 1..MaxInvocations : ConcRenameDelete(i)
  \/ \E i \in 1..MaxInvocations : ConcNotify(i)
  \/ \E i \in 1..MaxInvocations : ConcErrorsCopy(i)
  \/ \E i \in 1..MaxInvocations : ConcErrorsDelete(i)

ConcSpec == ConcInit /\ [][ConcNext]_vars

(***************************************************************************)
(* The interruption window: the process running an invocation stops after  *)
(* renameObject returned true and before Subscriber.notify is called       *)
(***************************************************************************)
\* the DeleteObject request of renameObject completes, renameObject returns
\* true, newKey and action are set in result, and the process stops there:
\* no notify call is made and nothing is returned
Interrupt(i) ==
  /\ i \in 1..Len(invocations)
  /\ invocations[i].pc = "renameDelete"
  /\ LET inv == invocations[i]
     IN  /\ store' = RemoveKey(store, inv.key)
         /\ invocations' =
              [invocations EXCEPT ![i] =
                 [Settle(inv, "true") EXCEPT
                    !.pc = "interrupted",
                    !.result = Spread(inv.result, [newKey |-> inv.newKey,
                                                   action |-> "renamed"])]]
  /\ UNCHANGED <<config, pending>>

CrashNext ==
  \/ Next
  \/ \E i \in 1..MaxInvocations : Interrupt(i)

CrashSpec == Init /\ [][CrashNext]_vars

(***************************************************************************)
(* One handler call: the records of a batch are processed one after        *)
(* another; the notifications of the objects the engine creates are        *)
(* delivered behind the batch                                              *)
(***************************************************************************)
\* records per batch
BatchSize == 2

\* keys of the records of a batch: a plain file, a nested file, a malformed
\* key, a key outside every intake path, a marked file
BatchKeys ==
  { S3Encode(PathA \o <<"/","d",".","j">>),
    S3Encode(PathA \o <<"/","b","/","d",".","j">>),
    PathA \o <<"/","%">>,
    <<"z","/","d",".","j">>,
    S3Encode(PathA \o <<"/">> \o TS1 \o <<"-","d",".","j">>) }

\* the objects of the records are in the bucket; a record may be delivered
\* more than once
BatchInit ==
  /\ config \in Configs
  /\ invocations = <<>>
  /\ pending \in [1..BatchSize -> BatchKeys]
  /\ store = [k \in { DecodeKey(pending[n]).value :
                        n \in { m \in 1..BatchSize : DecodeKey(pending[m]).ok } }
                |-> [content |-> k, tag |-> <<>>]]

\* mutation: no try/catch around a record, an exception ends the handler and
\* the rest of the batch is not processed
HandlerStep_NoCatch ==
  /\ \A i \in 1..Len(invocations) : invocations[i].pc = "done"
  /\ pending # <<>>
  /\ Len(invocations) < MaxInvocations
  /\ \E timestamp \in ClockValues :
       LET inv == ProcessStart(config.subdirectories, pending[1], timestamp)
       IN  /\ invocations' = Append(invocations, inv)
           /\ pending' = IF inv.thrown THEN <<>> ELSE Tail(pending)
  /\ UNCHANGED <<config, store>>

\* the for loop of handler: the next record is taken when process() of the
\* record before it has settled, whether it returned or threw
HandlerStep ==
  /\ \A i \in 1..Len(invocations) : invocations[i].pc = "done"
  /\ Start(1)

BatchNext ==
  \/ HandlerStep
  \/ \E i \in 1..MaxInvocations : RenameCopy(i)
  \/ \E i \in 1..MaxInvocations : RenameDelete(i)
  \/ \E i \in 1..MaxInvocations : Notify(i)
  \/ \E i \in 1..MaxInvocations : ErrorsCopy(i)
  \/ \E i \in 1..MaxInvocations : ErrorsDelete(i)

BatchSpec == BatchInit /\ [][BatchNext]_vars

(***************************************************************************)
(* Vocabulary of the properties                                            *)
(***************************************************************************)
Invs == 1..Len(invocations)

\* the invocation has returned an outcome
Completed(inv) == inv.pc = "done" /\ ~inv.thrown

CallsTo(inv, op) == SelectSeq(inv.calls, LAMBDA c : c.op = op)

\* number of calls of op over the whole run
TotalCalls(op) ==
  Cardinality({ c \in Invs \X (1..3) :
                  /\ c[2] <= Len(invocations[c[1]].calls)
                  /\ invocations[c[1]].calls[c[2]].op = op })

\* d occurs in s
Contains(s, d) ==
  \E i \in 0..(Len(s) - Len(d)) : SubSeq(s, i + 1, i + Len(d)) = d

\* the part of the key after its last "/"
LastSegment(key) ==
  LET slashes == { i \in 1..Len(key) : key[i] = "/" }
  IN  IF slashes = {} THEN key
      ELSE SubSeq(key, (CHOOSE i \in slashes : \A j \in slashes : j <= i) + 1, Len(key))

\* the marker: YYYY-MM-DDTHH:mm:ss.SSSZ- at the start of the filename
HasMarker(f) ==
  /\ Len(f) >= 25
  /\ \A i \in {1, 2, 3, 4, 6, 7, 9, 10, 12, 13, 15, 16, 18, 19, 21, 22, 23} :
       f[i] \in Digits
  /\ f[5] = "-" /\ f[8] = "-" /\ f[11] = "T" /\ f[14] = ":" /\ f[17] = ":"
  /\ f[20] = "." /\ f[24] = "Z" /\ f[25] = "-"

\* the rules whose intake path followed by "/" starts the key
MatchingRules(key) ==
  { r \in 1..Len(config.subdirectories) :
      /\ Len(key) > Len(config.subdirectories[r].path)
      /\ SubSeq(key, 1, Len(config.subdirectories[r].path) + 1)
           = config.subdirectories[r].path \o <<"/">> }

FirstRule(key) == CHOOSE r \in MatchingRules(key) : \A q \in MatchingRules(key) : r <= q

\* the invocation matched a rule and its filename carries no marker
ReachesRename(inv) ==
  /\ ~inv.thrown
  /\ MatchingRules(inv.key) # {}
  /\ ~HasMarker(LastSegment(inv.key))

\* the key of the transition format for the invocation's key and clock value
ExpectedNewKey(inv) ==
  LET path     == config.subdirectories[FirstRule(inv.key)].path
      filename == LastSegment(inv.key)
      from     == Len(path) + 2
      to       == Len(inv.key) - Len(filename) - 1
      nested   == SubSeq(inv.key, from, to)
  IN  path \o <<"/">> \o (IF nested = <<>> THEN <<>> ELSE nested \o <<"/">>)
        \o inv.timestamp \o <<"-">> \o filename

(***************************************************************************)
(* Properties                                                              *)
(***************************************************************************)
\* C1: one-hop recursion guard.  Whenever an invocation reached the rename
\* step and computed a new key, a later invocation on that new key returns
\* skipped-already-processed with success = true and calls no collaborator.
C1_OneHopRecursionGuard ==
  \A i \in Invs, j \in Invs :
    ( /\ i < j
      /\ invocations[i].calls # <<>>
      /\ ~invocations[j].thrown
      /\ invocations[j].key = invocations[i].newKey )
    => /\ invocations[j].pc = "done"
       /\ invocations[j].ret.action = "skipped-already-processed"
       /\ invocations[j].ret.success
       /\ invocations[j].calls = <<>>

C1_Witness ==
  \E i \in Invs, j \in Invs :
    /\ i < j
    /\ invocations[i].calls # <<>>
    /\ Completed(invocations[j])
    /\ invocations[j].key = invocations[i].newKey
    /\ invocations[j].ret.action = "skipped-already-processed"

\* no notification is pending and no invocation is in progress
Quiescent ==
  /\ pending = <<>>
  /\ \A i \in Invs : invocations[i].pc = "done"

\* the requests an invocation at pc still has to see settle, the two
\* notifications of the objects it may still write included
StepsLeft(pc) ==
  CASE pc = "renameCopy"   -> 7
    [] pc = "renameDelete" -> 5
    [] pc = "notify"       -> 4
    [] pc = "errorsCopy"   -> 3
    [] pc = "errorsDelete" -> 1
    [] OTHER               -> 0

RECURSIVE SumTo(_, _)
SumTo(f, n) == IF n = 0 THEN 0 ELSE f[n] + SumTo(f, n - 1)

\* bound on the number of steps left in the run: the notification of the
\* arrival may start an invocation that goes through every request, the
\* notification of an object written by the engine only starts an invocation
StepsRemaining ==
  SumTo([i \in Invs |-> StepsLeft(invocations[i].pc)], Len(invocations))
    + (IF invocations = <<>> THEN 1 + StepsLeft("renameCopy") ELSE Len(pending))

\* C2: feedback-loop termination.  With every written object notified back
\* to the engine, every step of the run (an invocation starting, a copy, a
\* delete or a notify settling either way) lowers the number of steps that
\* remain, so the run is finite; over the whole run at most three
\* notifications exist (the arrival, the renamed object, the quarantined
\* object), so the invocation cap never holds one back and the run ends with
\* nothing pending; renameObject and notify are each called at most once.
C2_FeedbackLoopTerminates ==
  /\ [][StepsRemaining' < StepsRemaining]_vars
  /\ [](/\ Len(invocations) + Len(pending) <= 3
        /\ TotalCalls("renameObject") <= 1
        /\ TotalCalls("notify") <= 1)

C2_Witness ==
  /\ Quiescent
  /\ Len(invocations) = 3
  /\ TotalCalls("renameObject") = 1
  /\ TotalCalls("notify") = 1
  /\ TotalCalls("moveToErrors") = 1
  /\ invocations[2].key = invocations[1].newKey
  /\ invocations[3].key = invocations[1].errorKey

\* C3: jurisdiction miss is effect-free.  An invocation whose decoded key
\* starts with no intake path followed by "/" returns skipped-no-match with
\* success = true and calls no collaborator.
C3_JurisdictionMissEffectFree ==
  \A i \in Invs :
    (~invocations[i].thrown /\ MatchingRules(invocations[i].key) = {})
    => /\ invocations[i].pc = "done"
       /\ invocations[i].ret.action = "skipped-no-match"
       /\ invocations[i].ret.success
       /\ invocations[i].calls = <<>>

\* a key that shares a non-segment prefix with an intake path
C3_Witness ==
  \E i \in Invs :
    /\ Completed(invocations[i])
    /\ MatchingRules(invocations[i].key) = {}
    /\ \E r \in 1..Len(config.subdirectories) :
         StartsWith(invocations[i].key, config.subdirectories[r].path)
    /\ invocations[i].ret.action = "skipped-no-match"

\* C4: marked objects are effect-free.  An invocation whose key matches a
\* rule and whose last segment starts with the marker returns
\* skipped-already-processed with success = true and calls no collaborator.
C4_MarkedEffectFree ==
  \A i \in Invs :
    ( /\ ~invocations[i].thrown
      /\ MatchingRules(invocations[i].key) # {}
      /\ HasMarker(LastSegment(invocations[i].key)) )
    => /\ invocations[i].pc = "done"
       /\ invocations[i].ret.action = "skipped-already-processed"
       /\ invocations[i].ret.success
       /\ invocations[i].calls = <<>>

\* a marked arrival whose filename is the bare marker
C4_Witness ==
  \E i \in Invs :
    /\ Completed(invocations[i])
    /\ MatchingRules(invocations[i].key) # {}
    /\ HasMarker(LastSegment(invocations[i].key))
    /\ Len(LastSegment(invocations[i].key)) = 25
    /\ invocations[i].ret.action = "skipped-already-processed"

\* C5: only the filename is inspected by the guard.  An invocation whose key
\* matches a rule and whose last segment does not start with the marker calls
\* renameObject exactly once and does not return skipped-already-processed,
\* whatever the directory segments look like.
C5_OnlyFilenameInspected ==
  \A i \in Invs :
    ReachesRename(invocations[i])
    => /\ Len(CallsTo(invocations[i], "renameObject")) = 1
       /\ invocations[i].pc = "done"
            => invocations[i].ret.action # "skipped-already-processed"

\* the intake path and a nested directory both look like the marker
C5_Witness ==
  \E i \in Invs :
    /\ Completed(invocations[i])
    /\ ReachesRename(invocations[i])
    /\ Len(Split(invocations[i].key)) = 3
    /\ HasMarker(Split(invocations[i].key)[1])
    /\ HasMarker(Split(invocations[i].key)[2])
    /\ Len(CallsTo(invocations[i], "renameObject")) = 1

\* C6: first-match policy.  The matched rule is the first rule in declaration
\* order whose intake path followed by "/" starts the key; that rule gives the
\* prefix of the new key, the target that is notified and the scope path of
\* the quarantine call.
C6_FirstMatch ==
  \A i \in Invs :
    (~invocations[i].thrown /\ MatchingRules(invocations[i].key) # {})
    => LET inv  == invocations[i]
           rule == config.subdirectories[FirstRule(inv.key)]
       IN  /\ inv.subfolderConfig = FirstRule(inv.key)
           /\ \A c \in 1..Len(inv.calls) :
                /\ inv.calls[c].op = "renameObject"
                     => StartsWith(inv.calls[c].args[2], rule.path \o <<"/">>)
                /\ inv.calls[c].op = "notify"
                     => inv.calls[c].args[1] = rule.subscriberLambdaArn
                /\ inv.calls[c].op = "moveToErrors"
                     => inv.calls[c].args[2] = rule.path

\* a key under two rules, the later one more specific, notified and quarantined
C6_Witness ==
  \E i \in Invs :
    /\ Completed(invocations[i])
    /\ \E q \in MatchingRules(invocations[i].key) :
         /\ q > FirstRule(invocations[i].key)
         /\ Len(config.subdirectories[q].path)
              > Len(config.subdirectories[FirstRule(invocations[i].key)].path)
    /\ Len(CallsTo(invocations[i], "notify")) = 1
    /\ Len(CallsTo(invocations[i], "moveToErrors")) = 1

\* C7: key transition format.  For a matched, unmarked key renameObject is
\* called with the decoded key as source and, as destination, the intake
\* path, "/", the nested sub-path and "/" when there is one, the clock value,
\* "-" and the last segment of the key unchanged.
C7_KeyTransitionFormat ==
  \A i \in Invs :
    ReachesRename(invocations[i])
    => /\ invocations[i].calls # <<>>
       /\ invocations[i].calls[1].op = "renameObject"
       /\ invocations[i].calls[1].args
            = <<invocations[i].key, ExpectedNewKey(invocations[i])>>
       /\ invocations[i].timestamp \in ClockValues

\* a filename with a space and several dots, below a nested directory
C7_Witness ==
  \E i \in Invs :
    /\ ReachesRename(invocations[i])
    /\ Len(Split(invocations[i].key)) = 3
    /\ Split(invocations[i].key)[2] # <<>>
    /\ Contains(LastSegment(invocations[i].key), <<" ">>)
    /\ Contains(LastSegment(invocations[i].key), <<".", "c", ".">>)
    /\ invocations[i].calls[1].args[2] = ExpectedNewKey(invocations[i])

\* the invocation's call of renameObject returned true and its notify rejected
NotifyWasRejected(inv) ==
  /\ Len(inv.calls) >= 2
  /\ inv.calls[1].op = "renameObject" /\ inv.calls[1].returned = "true"
  /\ inv.calls[2].op = "notify" /\ inv.calls[2].returned = "rejected"

\* C8: notify failure path.  After renameObject returned true and notify
\* rejected, moveToErrors is called exactly once, with the renamed key (not
\* the original key), the matched intake path and a reason containing the
\* failure detail; the outcome is error-invoke with success = false,
\* subscriberInvoked = false, movedToErrors equal to what moveToErrors
\* returned, and a reason containing the failure detail.
C8_NotifyFailurePath ==
  \A i \in Invs :
    NotifyWasRejected(invocations[i])
    => LET inv  == invocations[i]
           move == CallsTo(inv, "moveToErrors")
       IN  /\ Len(move) = 1
           /\ move[1].args[1] = inv.calls[1].args[2]
           /\ move[1].args[1] # inv.key
           /\ move[1].args[2] = config.subdirectories[FirstRule(inv.key)].path
           /\ Contains(move[1].args[3], inv.error.message)
           /\ inv.pc = "done"
                => /\ ~inv.thrown
                   /\ inv.ret.action = "error-invoke"
                   /\ inv.ret.success = FALSE
                   /\ inv.ret.subscriberInvoked = FALSE
                   /\ inv.ret.movedToErrors = (move[1].returned = "true")
                   /\ Contains(inv.ret.reason, inv.error.message)

\* the move failed at its delete, after the copy had been made
C8_Witness ==
  \E i \in Invs :
    /\ NotifyWasRejected(invocations[i])
    /\ Completed(invocations[i])
    /\ invocations[i].ret.action = "error-invoke"
    /\ invocations[i].ret.movedToErrors = FALSE
    /\ invocations[i].errorKey \in DOMAIN store

\* the invocation's call of renameObject returned true and its notify resolved
NotifyWasAccepted(inv) ==
  /\ Len(inv.calls) >= 2
  /\ inv.calls[1].op = "renameObject" /\ inv.calls[1].returned = "true"
  /\ inv.calls[2].op = "notify" /\ inv.calls[2].returned = "resolved"

\* C9: success path.  After renameObject returned true and notify was
\* accepted, the outcome is renamed with success = true, subscriberInvoked =
\* true and newKey the destination passed to renameObject, and moveToErrors
\* is never called.
C9_SuccessPath ==
  \A i \in Invs :
    NotifyWasAccepted(invocations[i])
    => LET inv == invocations[i]
       IN  /\ Completed(inv)
           /\ inv.ret.action = "renamed"
           /\ inv.ret.success = TRUE
           /\ inv.ret.subscriberInvoked = TRUE
           /\ inv.ret.newKey = inv.calls[1].args[2]
           /\ Len(CallsTo(inv, "moveToErrors")) = 0

C9_Witness ==
  \E i \in Invs :
    /\ NotifyWasAccepted(invocations[i])
    /\ Completed(invocations[i])
    /\ invocations[i].ret.action = "renamed"
    /\ invocations[i].ret.newKey \in DOMAIN store

\* C10: rename failure path.  After renameObject returned false the outcome
\* is error-rename with success = false and a reason saying that the rename
\* failed, and neither notify nor moveToErrors is called.
C10_RenameFailurePath ==
  \A i \in Invs :
    ( /\ invocations[i].calls # <<>>
      /\ invocations[i].calls[1].op = "renameObject"
      /\ invocations[i].calls[1].returned = "false" )
    => LET inv == invocations[i]
       IN  /\ Completed(inv)
           /\ inv.ret.action = "error-rename"
           /\ inv.ret.success = FALSE
           /\ Contains(inv.ret.reason, <<"F","a","i","l","e","d"," ","t","o"," ",
                                         "r","e","n","a","m","e">>)
           /\ Len(inv.calls) = 1

\* the rename failed at its delete, after the copy had been made
C10_Witness ==
  \E i \in Invs :
    /\ Completed(invocations[i])
    /\ invocations[i].calls # <<>>
    /\ invocations[i].calls[1].returned = "false"
    /\ invocations[i].ret.action = "error-rename"
    /\ invocations[i].newKey \in DOMAIN store

\* C11: process() never throws.  Every invocation that is over, whatever the
\* raw key of its record and whatever the collaborators did, has returned an
\* outcome (a value with success, action and originalKey), and an outcome
\* with success = false carries the reason of the failure.
C11_ProcessNeverThrows ==
  \A i \in Invs :
    invocations[i].pc = "done"
    => /\ ~invocations[i].thrown
       /\ {"success", "action", "originalKey"} \subseteq DOMAIN invocations[i].ret
       /\ ~invocations[i].ret.success => "reason" \in DOMAIN invocations[i].ret

Actions ==
  {"skipped-no-match", "skipped-already-processed", "renamed", "error-rename",
   "error-invoke"}

\* C12: outcome consistency.  An invocation that has returned has an outcome
\* whose action is one of the five actions and whose success is true exactly
\* for skipped-no-match, skipped-already-processed and renamed; the outcome is
\* produced once: an invocation that is over never changes again.
C12_OutcomeConsistency ==
  /\ [](\A i \in Invs :
          Completed(invocations[i])
          => /\ invocations[i].ret.action \in Actions
             /\ invocations[i].ret.success \in BOOLEAN
             /\ invocations[i].ret.success
                  <=> invocations[i].ret.action
                        \in {"skipped-no-match", "skipped-already-processed", "renamed"})
  /\ [][\A i \in Invs :
          invocations[i].pc = "done"
          => /\ i <= Len(invocations')
             /\ invocations'[i] = invocations[i]]_vars

\* all five actions have been returned by now: the arrival was quarantined
\* and the two notifications of the engine's own writes were skipped
C12_Witness ==
  /\ Quiescent
  /\ \E i \in Invs, j \in Invs :
       /\ Completed(invocations[i]) /\ Completed(invocations[j])
       /\ invocations[i].ret.action = "error-invoke"
       /\ ~invocations[i].ret.success
       /\ invocations[j].ret.action = "skipped-already-processed"
       /\ invocations[j].ret.success

\* key is what raw stands for: raw is the key as the bucket encodes it
\* (space as "+", ":", "+" and "%" as percent escapes), or raw has nothing to
\* decode and is the key itself
DecodesTo(raw, key) ==
  \/ raw = S3Encode(key)
  \/ /\ raw = key
     /\ \A n \in 1..Len(raw) : raw[n] \notin {"+", "%"}

\* C13: key decoding.  The key the invocation works on is the raw key with
\* every "+" turned into a space and every percent escape decoded; the
\* matched rule, the guard and the source of the rename are those of the
\* decoded key, originalKey of the outcome is the decoded key, and a matched
\* key whose last segment carries the marker once decoded is skipped as
\* already processed.
C13_KeyDecoding ==
  \A i \in Invs :
    ~invocations[i].thrown
    => LET inv == invocations[i]
       IN  /\ DecodesTo(inv.raw, inv.key)
           /\ inv.subfolderConfig
                = (IF MatchingRules(inv.key) = {} THEN 0 ELSE FirstRule(inv.key))
           /\ inv.pc = "done" => inv.ret.originalKey = inv.key
           /\ inv.calls # <<>> => inv.calls[1].args[1] = inv.key
           /\ (MatchingRules(inv.key) # {} /\ HasMarker(LastSegment(inv.key)))
                => /\ inv.pc = "done"
                   /\ inv.ret.action = "skipped-already-processed"

\* the marker is only there after decoding: ":" arrived as %3A
C13_Witness ==
  \E i \in Invs :
    /\ Completed(invocations[i])
    /\ Contains(invocations[i].raw, <<"%", "3", "A">>)
    /\ ~HasMarker(LastSegment(invocations[i].raw))
    /\ HasMarker(LastSegment(invocations[i].key))
    /\ invocations[i].ret.action = "skipped-already-processed"
    /\ invocations[i].ret.originalKey = invocations[i].key

ReasonOfTag(tag) == DecodeURIComponent(Substring(tag, 13))

\* C15: quarantine move contract.  moveToErrors(key, scopePath, reason) copies
\* the object to scopePath, "/errors/", a timestamp read by the move itself,
\* "-" and the last segment of key (which is never empty here), tagged with
\* the reason, and only then deletes key.  It returns true only from a
\* successful delete that follows a successful copy, and the object is then
\* at the quarantine key and no longer at key; it returns false, without
\* throwing, when either request fails, and that step leaves the bucket as it
\* was.
C15_QuarantineContract ==
  /\ [](\A i \in Invs :
          Len(invocations[i].calls) = 3
          => LET inv == invocations[i]
                 m   == inv.calls[3]
             IN  /\ m.op = "moveToErrors"
                 /\ LastSegment(m.args[1]) # <<>>
                 /\ \E ts \in ClockValues :
                      inv.errorKey = m.args[2] \o <<"/","e","r","r","o","r","s","/">>
                                       \o ts \o <<"-">> \o LastSegment(m.args[1])
                 /\ inv.pc = "errorsDelete"
                      => /\ m.returned = "pending"
                         /\ m.args[1] \in DOMAIN store
                         /\ inv.errorKey \in DOMAIN store
                         /\ store[inv.errorKey].content = store[m.args[1]].content
                 /\ inv.errorKey \in DOMAIN store
                      => /\ SubSeq(store[inv.errorKey].tag, 1, 13)
                              = <<"e","r","r","o","r","-","r","e","a","s","o","n","=">>
                         /\ ReasonOfTag(store[inv.errorKey].tag)
                              = [ok |-> TRUE, value |-> m.args[3]]
                 /\ m.returned = "true"
                      => /\ m.args[1] \notin DOMAIN store
                         /\ inv.errorKey \in DOMAIN store
                 /\ m.returned = "false" => ~inv.thrown /\ inv.pc = "done")
  /\ [][\A i \in Invs :
          (invocations[i].pc \in {"errorsCopy", "errorsDelete"}
             /\ invocations'[i].pc # invocations[i].pc)
          => LET inv == invocations[i]
                 ret == invocations'[i].calls[3].returned
             IN  /\ ret = "false" => store' = store
                 /\ (inv.pc = "errorsCopy" /\ inv.errorKey \notin DOMAIN store')
                      => ret = "false"
                 /\ ret = "true"
                      => /\ inv.pc = "errorsDelete"
                         /\ inv.newKey \notin DOMAIN store'
                         /\ store'[inv.errorKey].content = store[inv.newKey].content]_vars

\* a completed move whose timestamp is not the one of the rename
C15_Witness ==
  \E i \in Invs :
    /\ Len(invocations[i].calls) = 3
    /\ invocations[i].calls[3].returned = "true"
    /\ invocations[i].errorKey \in DOMAIN store
    /\ invocations[i].newKey \notin DOMAIN store
    /\ ~Contains(invocations[i].errorKey,
                 <<"/">> \o invocations[i].timestamp \o <<"-">> \o invocations[i].timestamp)
    /\ store[invocations[i].errorKey].tag # <<>>

\* C16: a quarantined object cannot recurse.  The invocation started by the
\* creation notification of the object that moveToErrors wrote, under the
\* same configuration, returns a skipped outcome (skipped-already-processed)
\* with success = true and calls neither renameObject nor notify nor
\* moveToErrors.
C16_QuarantinedNoRecursion ==
  \A i \in Invs, j \in Invs :
    ( /\ i # j
      /\ Len(invocations[i].calls) = 3
      /\ invocations[j].raw = S3Encode(invocations[i].errorKey) )
    => /\ ~invocations[j].thrown
       /\ invocations[j].key = invocations[i].errorKey
       /\ invocations[j].pc = "done"
       /\ invocations[j].ret.action = "skipped-already-processed"
       /\ invocations[j].ret.success
       /\ invocations[j].calls = <<>>

\* the move completed and the notification of its copy has been handled
C16_Witness ==
  \E i \in Invs, j \in Invs :
    /\ i < j
    /\ Len(invocations[i].calls) = 3
    /\ invocations[i].calls[3].returned = "true"
    /\ invocations[i].errorKey \in DOMAIN store
    /\ Completed(invocations[j])
    /\ invocations[j].key = invocations[i].errorKey
    /\ invocations[j].ret.action = "skipped-already-processed"
    /\ store[invocations[i].errorKey].tag # <<>>
    /\ pending = <<>>

\* the contents stored in the bucket
Contents(s) == { s[k].content : k \in DOMAIN s }

\* C17: no silent loss.  Every object in the bucket is at the key of a
\* notification not yet handled or at the original, renamed or quarantine key
\* of an invocation; a step removes a key only when the same content was
\* already, and still is, at another key, so that the content of an arrival
\* is never lost, whatever the interleaving and whichever copy, delete or
\* notify fails.
C17_NoSilentLoss ==
  /\ [](\A k \in DOMAIN store :
          \/ \E n \in 1..Len(pending) : DecodesTo(pending[n], k)
          \/ \E i \in Invs :
               k \in {invocations[i].key, invocations[i].newKey, invocations[i].errorKey})
  /\ [][\A k \in DOMAIN store :
          k \notin DOMAIN store'
          => \E k2 \in DOMAIN store \ {k} :
               /\ k2 \in DOMAIN store'
               /\ store[k2].content = store[k].content
               /\ store'[k2].content = store[k].content]_vars
  /\ [][Contents(store) \subseteq Contents(store')]_vars

\* renamed and quarantined: the arrival is only at its quarantine key
C17_Witness ==
  \E i \in Invs :
    /\ Completed(invocations[i])
    /\ Len(invocations[i].calls) = 3
    /\ invocations[i].key \notin DOMAIN store
    /\ invocations[i].newKey \notin DOMAIN store
    /\ invocations[i].errorKey \in DOMAIN store
    /\ store[invocations[i].errorKey].content = invocations[i].key

\* the invocation renamed the object, its notify rejected and moveToErrors
\* returned true
Quarantined(inv) ==
  /\ NotifyWasRejected(inv)
  /\ Len(inv.calls) = 3
  /\ inv.calls[3].op = "moveToErrors" /\ inv.calls[3].returned = "true"

Prepended(key, t) ==
  LET dir == SubSeq(key, 1, Len(key) - Len(LastSegment(key)))
  IN  dir \o t \o <<"-">> \o LastSegment(key)

\* C19: pure prepend.  For every matched, unmarked decoded key, at any depth
\* and with empty directory segments too, the new key is the decoded key with
\* the clock value and "-" inserted immediately before its last segment;
\* taking the inserted characters out of the new key gives the decoded key.
C19_PurePrepend ==
  \A i \in Invs :
    (ReachesRename(invocations[i]) /\ invocations[i].calls # <<>>)
    => LET inv    == invocations[i]
           newKey == inv.calls[1].args[2]
           at     == Len(inv.key) - Len(LastSegment(inv.key))
       IN  /\ newKey = Prepended(inv.key, inv.timestamp)
           /\ SubSeq(newKey, 1, at) \o SubSeq(newKey, at + PatternLength + 1, Len(newKey))
                = inv.key

\* the external calls of process() in program order
CallOrder == <<"renameObject", "notify", "moveToErrors">>

\* position of a step in process()
Rank(pc) ==
  CASE pc = "start"        -> 0
    [] pc = "renameCopy"   -> 1
    [] pc = "renameDelete" -> 2
    [] pc = "notify"       -> 3
    [] pc = "errorsCopy"   -> 4
    [] pc = "errorsDelete" -> 5
    [] pc = "done"         -> 6

\* C20: step ordering within one invocation.  The calls of an invocation are
\* renameObject, notify, moveToErrors in that order, each at most once; a call
\* is made only when the one before it has settled, notify only after
\* renameObject returned true and moveToErrors only after notify rejected;
\* the invocation only moves forward and a call that was made or has settled
\* is never changed.
C20_StepOrdering ==
  /\ [](\A i \in Invs :
          LET inv == invocations[i]
              n   == Len(inv.calls)
          IN  /\ n <= 3
              /\ \A c \in 1..n : inv.calls[c].op = CallOrder[c]
              /\ \A c \in 1..(n - 1) : inv.calls[c].returned # "pending"
              /\ n >= 2 => inv.calls[1].returned = "true"
              /\ n = 3 => inv.calls[2].returned = "rejected"
              /\ inv.pc \in {"renameCopy", "renameDelete"} => n = 1
              /\ inv.pc = "notify" => n = 2
              /\ inv.pc \in {"errorsCopy", "errorsDelete"} => n = 3
              /\ inv.pc # "done" => inv.calls[n].returned = "pending")
  /\ [][\A i \in Invs :
          /\ i <= Len(invocations')
          /\ Rank(invocations'[i].pc) >= Rank(invocations[i].pc)
          /\ Len(invocations'[i].calls) >= Len(invocations[i].calls)
          /\ \A c \in 1..Len(invocations[i].calls) :
               /\ invocations'[i].calls[c].op = invocations[i].calls[c].op
               /\ invocations'[i].calls[c].args = invocations[i].calls[c].args
               /\ invocations[i].calls[c].returned # "pending"
                    => invocations'[i].calls[c] = invocations[i].calls[c]]_vars

\* an invocation that went through all three calls
C20_Witness ==
  \E i \in Invs :
    /\ Completed(invocations[i])
    /\ Len(invocations[i].calls) = 3
    /\ invocations[i].calls[1].returned = "true"
    /\ invocations[i].calls[2].returned = "rejected"
    /\ invocations[i].calls[3].returned \in {"true", "false"}

\* C21: single clock read.  An invocation that reaches the transition step
\* reads the injected clock exactly once, an invocation that ends with
\* skipped-no-match or skipped-already-processed does not read it; the value
\* read is the one in the destination passed to renameObject and in the
\* newKey of the outcome.
C21_SingleClockRead ==
  [](\A i \in Invs :
       ~invocations[i].thrown
       => LET inv == invocations[i]
          IN  /\ inv.clockReads = (IF ReachesRename(inv) THEN 1 ELSE 0)
              /\ ReachesRename(inv)
                   => /\ inv.timestamp \in ClockValues
                      /\ inv.calls[1].args[2] = ExpectedNewKey(inv)
              /\ (inv.pc = "done" /\ "newKey" \in DOMAIN inv.ret)
                   => inv.ret.newKey = ExpectedNewKey(inv)
              /\ (inv.pc = "done" /\ ~ReachesRename(inv))
                   => inv.ret.action \in {"skipped-no-match", "skipped-already-processed"})

\* quarantined with a timestamp other than the clock value: the outcome still
\* reports the key made from the one clock read
C21_Witness ==
  \E i \in Invs :
    /\ Completed(invocations[i])
    /\ invocations[i].clockReads = 1
    /\ invocations[i].ret.action = "error-invoke"
    /\ invocations[i].ret.newKey = ExpectedNewKey(invocations[i])
    /\ ~Contains(invocations[i].errorKey, <<"/">> \o invocations[i].timestamp)

\* the invocations that went as far as calling renameObject
Effectful == { i \in Invs : invocations[i].calls # <<>> }

\* the notification would be skipped: its key matches no rule or is marked
WouldSkip(raw) ==
  /\ DecodeKey(raw).ok
  /\ \/ MatchingRules(DecodeKey(raw).value) = {}
     \/ HasMarker(LastSegment(DecodeKey(raw).value))

\* nothing is in progress and nothing that is pending can change the bucket
Settled ==
  /\ \A i \in Invs : invocations[i].pc = "done"
  /\ \A n \in 1..Len(pending) : WouldSkip(pending[n])

\* notify of the invocation rejected
Rejected(inv) == Len(inv.calls) >= 2 /\ inv.calls[2].returned = "rejected"

\* the bucket s after the record of inv has been processed on its own, with
\* the clock value, the notify result and the quarantine timestamp inv had
AloneStore(s, inv) ==
  IF inv.key \notin DOMAIN s THEN s
  ELSE LET s1 == (inv.newKey :> s[inv.key]) @@ RemoveKey(s, inv.key)
       IN  IF Rejected(inv)
             THEN (inv.errorKey :> [content |-> s1[inv.newKey].content,
                                    tag |-> Tagging(inv.reason)])
                    @@ RemoveKey(s1, inv.newKey)
             ELSE s1

\* the outcome inv has is the one of processing its record on its own in s
AloneOutcome(s, inv) ==
  IF inv.key \notin DOMAIN s THEN inv.ret.action = "error-rename"
  ELSE IF Rejected(inv)
    THEN inv.ret.action = "error-invoke" /\ inv.ret.movedToErrors
    ELSE inv.ret.action = "renamed" /\ inv.ret.success

RECURSIVE SeqStore(_, _)
\* the bucket after the records of the invocations in order have been
\* processed one after another, starting from s
SeqStore(s, order) ==
  IF order = <<>> THEN s
  ELSE SeqStore(AloneStore(s, invocations[Head(order)]), Tail(order))

RECURSIVE SeqOutcomes(_, _)
SeqOutcomes(s, order) ==
  IF order = <<>> THEN TRUE
  ELSE /\ AloneOutcome(s, invocations[Head(order)])
       /\ SeqOutcomes(AloneStore(s, invocations[Head(order)]), Tail(order))

\* the orders in which the records that were not skipped can be processed
Orders ==
  { o \in [1..Cardinality(Effectful) -> Effectful] :
      \A a, b \in DOMAIN o : a # b => o[a] # o[b] }

\* the objects of the records that were not skipped, as they arrived
ArrivedStore ==
  [k \in { invocations[i].key : i \in Effectful } |-> [content |-> k, tag |-> <<>>]]

\* the keys the invocations read or wrote
Touched ==
  UNION { {invocations[i].key, invocations[i].newKey, invocations[i].errorKey} :
            i \in Effectful }

\* C22: independence of concurrent invocations.  When two records with
\* distinct decoded keys have been processed concurrently, in whatever
\* interleaving of their awaits, there is an order in which processing them
\* one after another gives every record the outcome it has and leaves the
\* bucket as it is; objects no invocation touched are as they arrived.
C22_ConcurrentAsSequential ==
  Settled
  => /\ \E o \in Orders :
          /\ SeqOutcomes(ArrivedStore, o)
          /\ \A k \in Touched :
               /\ k \in DOMAIN store <=> k \in DOMAIN SeqStore(ArrivedStore, o)
               /\ k \in DOMAIN store => store[k] = SeqStore(ArrivedStore, o)[k]
     /\ \A k \in DOMAIN store \ Touched : store[k] = [content |-> k, tag |-> <<>>]

\* C27: no destination collision.  Two invocations for distinct decoded keys
\* that both reached the rename with the same clock value have distinct new
\* keys.
C27_NoDestinationCollision ==
  \A i \in Invs, j \in Invs :
    /\ i # j
    /\ ReachesRename(invocations[i]) /\ ReachesRename(invocations[j])
    /\ invocations[i].key # invocations[j].key
    /\ invocations[i].timestamp = invocations[j].timestamp
    => invocations[i].newKey # invocations[j].newKey

\* the invocation's key is an intake path followed by "/" and nothing else
EmptyFilenameRules(inv) ==
  { r \in 1..Len(config.subdirectories) :
      inv.key = config.subdirectories[r].path \o <<"/">> }

\* C25: empty filename.  For a decoded key that is an intake path followed by
\* "/" and nothing else, the empty filename is not taken as marked:
\* renameObject is called with the key and the destination intake path + "/"
\* + clock value + "-", and the invocation does not throw: once over, it has
\* returned the outcome renamed, error-rename or error-invoke.
C25_EmptyFilename ==
  [](\A i \in Invs :
       \A r \in EmptyFilenameRules(invocations[i]) :
         LET inv == invocations[i]
         IN  /\ ~inv.thrown
             /\ inv.timestamp \in ClockValues
             /\ Len(inv.calls) >= 1
             /\ inv.calls[1].op = "renameObject"
             /\ inv.calls[1].args
                  = <<inv.key, config.subdirectories[r].path \o <<"/">>
                                 \o inv.timestamp \o <<"-">>>>
             /\ inv.pc = "done"
                  => inv.ret.action \in {"renamed", "error-rename", "error-invoke"})

\* the object at an intake path + "/" was renamed and the target notified
C25_Witness ==
  \E i \in Invs :
    /\ EmptyFilenameRules(invocations[i]) # {}
    /\ Completed(invocations[i])
    /\ invocations[i].ret.action = "renamed"
    /\ invocations[i].ret.newKey
         = invocations[i].key \o invocations[i].timestamp \o <<"-">>
    /\ invocations[i].ret.newKey \in DOMAIN store

\* C28: optional outcome fields.  newKey and subscriberInvoked are in the
\* outcome exactly when its action is renamed or error-invoke, movedToErrors
\* exactly when it is error-invoke, reason in every outcome but renamed; the
\* newKey of an error-invoke outcome is the renamed key that was passed to
\* moveToErrors, not the quarantine key, whether the move succeeded or not.
C28_OptionalOutcomeFields ==
  [](\A i \in Invs :
       Completed(invocations[i])
       => LET inv == invocations[i]
              ret == inv.ret
          IN  /\ "newKey" \in DOMAIN ret <=> ret.action \in {"renamed", "error-invoke"}
              /\ "subscriberInvoked" \in DOMAIN ret
                   <=> ret.action \in {"renamed", "error-invoke"}
              /\ "movedToErrors" \in DOMAIN ret <=> ret.action = "error-invoke"
              /\ "reason" \in DOMAIN ret <=> ret.action # "renamed"
              /\ ret.action = "error-invoke"
                   => /\ inv.calls[3].op = "moveToErrors"
                      /\ ret.newKey = inv.calls[3].args[1]
                      /\ ret.newKey # inv.errorKey
                      /\ ret.movedToErrors = (inv.calls[3].returned = "true"))

\* an error-invoke outcome whose move failed: newKey is still the renamed key
C28_Witness ==
  \E i \in Invs :
    /\ Completed(invocations[i])
    /\ invocations[i].ret.action = "error-invoke"
    /\ ~invocations[i].ret.movedToErrors
    /\ invocations[i].ret.newKey = invocations[i].calls[3].args[1]
    /\ invocations[i].ret.newKey \in DOMAIN store
    /\ invocations[i].errorKey # <<>>

\* notify or moveToErrors was called for the key
CalledFor(key) ==
  \E j \in Invs :
    \/ Len(invocations[j].calls) >= 2 /\ invocations[j].calls[2].args[2] = key
    \/ Len(invocations[j].calls) >= 3 /\ invocations[j].calls[3].args[1] = key

\* C23: the interruption window.  Once an invocation was interrupted after
\* renameObject returned true and before notify, no invocation calls notify
\* or moveToErrors for the object, in any continuation: the invocation made
\* the renameObject call only, the creation notification of the renamed
\* object is skipped as already processed without a call, and the object
\* stays at its renamed key with its content, untagged, while neither its
\* original key nor a quarantine key holds it.
C23_InterruptionWindow ==
  \A i \in Invs :
    invocations[i].pc = "interrupted"
    => LET inv == invocations[i]
       IN  /\ Len(inv.calls) = 1 /\ inv.calls[1].returned = "true"
           /\ ~CalledFor(inv.newKey)
           /\ TotalCalls("notify") = 0 /\ TotalCalls("moveToErrors") = 0
           /\ \A j \in Invs :
                (invocations[j].key = inv.newKey /\ invocations[j].pc # "start")
                => /\ Completed(invocations[j])
                   /\ invocations[j].ret.action = "skipped-already-processed"
                   /\ invocations[j].calls = <<>>
           /\ inv.newKey \in DOMAIN store
           /\ store[inv.newKey] = [content |-> inv.key, tag |-> <<>>]
           /\ DOMAIN store = {inv.newKey}

\* interrupted, and the notification of the renamed object has been handled
C23_Witness ==
  \E i \in Invs, j \in Invs :
    /\ invocations[i].pc = "interrupted"
    /\ Completed(invocations[j])
    /\ invocations[j].key = invocations[i].newKey
    /\ invocations[j].ret.action = "skipped-already-processed"
    /\ pending = <<>>
    /\ invocations[i].newKey \in DOMAIN store

\* C24: batch isolation in the dispatcher.  At most one invocation is in
\* progress; an invocation is created only when every earlier one is over,
\* for the record at the head of the batch, which is the only record that
\* leaves the batch, also when the invocation throws; no other step removes
\* a record, so that a record whose processing failed or threw leaves the
\* later records to be processed.
C24_BatchIsolation ==
  /\ [](Cardinality({ i \in Invs : invocations[i].pc # "done" }) <= 1)
  /\ [][Len(invocations') # Len(invocations)
         => /\ \A i \in Invs : invocations[i].pc = "done"
            /\ Len(invocations') = Len(invocations) + 1
            /\ SubSeq(invocations', 1, Len(invocations)) = invocations
            /\ pending # <<>>
            /\ invocations'[Len(invocations')].raw = pending[1]
            /\ pending' = Tail(pending)]_vars
  /\ [][Len(invocations') = Len(invocations)
         => /\ Len(pending') >= Len(pending)
            /\ SubSeq(pending', 1, Len(pending)) = pending]_vars

\* the first record threw, the second returned an error, and the handler
\* went on to the notification behind them
C24_Witness ==
  /\ Len(invocations) >= 3
  /\ invocations[1].thrown
  /\ Completed(invocations[2])
  /\ invocations[2].ret.action \in {"error-rename", "error-invoke"}
  /\ invocations[3].pc = "done"

\* C26: sequential redelivery is harmless.  When a record is processed again
\* after an invocation for it whose renameObject returned true, the later
\* invocation calls renameObject only, the call returns false and the
\* outcome is error-rename; notify is called at most once over the
\* invocations of one record.
C26_SequentialRedelivery ==
  /\ \A i \in Invs, j \in Invs :
       /\ i < j
       /\ invocations[i].raw = invocations[j].raw
       /\ invocations[i].calls # <<>>
       /\ invocations[i].calls[1].returned = "true"
       => /\ invocations[j].pc \in {"renameCopy", "done"}
          /\ Len(invocations[j].calls) = 1
          /\ invocations[j].calls[1].op = "renameObject"
          /\ invocations[j].key \notin DOMAIN store
          /\ invocations[j].pc = "done"
               => /\ invocations[j].calls[1].returned = "false"
                  /\ ~invocations[j].thrown
                  /\ invocations[j].ret.action = "error-rename"
  /\ \A raw \in BatchKeys :
       Cardinality({ i \in Invs : /\ invocations[i].raw = raw
                                  /\ Len(invocations[i].calls) >= 2 }) <= 1

\* a record was renamed and notified, and its redelivery ended error-rename
C26_Witness ==
  \E i \in Invs, j \in Invs :
    /\ i < j
    /\ invocations[i].raw = invocations[j].raw
    /\ Completed(invocations[i])
    /\ invocations[i].ret.action = "renamed"
    /\ Completed(invocations[j])
    /\ invocations[j].ret.action = "error-rename"
    /\ TotalCalls("notify") = 1

====
